---- MODULE Spec2Model ----
(***************************************************************************)
(* Task-annotation parser, habit streak / accumulated-counter state        *)
(* machine and line mutations of the Obsidian Eisenhower-matrix plugin.    *)
(*                                                                         *)
(* A line of a markdown document is a sequence of tokens.  A token is a    *)
(* record [k |-> kind, v |-> integer]: the kind names the lexical shape    *)
(* the plugin's regular expressions recognise, v carries the number, the   *)
(* day or the word.  Dates YYYY-MM-DD are day numbers.  An optional value  *)
(* (undefined / null in the source) is the empty sequence, a present one   *)
(* the one-element sequence.                                               *)
(***************************************************************************)
EXTENDS Integers, Sequences, FiniteSets, TLC

VARIABLES
    doc,             \* the markdown file: a sequence of lines
    today,           \* the calendar day the clock shows
    settings,        \* plugin settings
    matrixTasks,     \* EisenhowerMatrixView.matrixTasks
    matrixJson,      \* EisenhowerMatrixView._lastTasksJson
    habitTasks,      \* DailyHabitTrackerView.habitTasks
    habitJson,       \* DailyHabitTrackerView._lastTasksJson
    checkboxOff,     \* per rendered habit task: its checkbox is disabled
    groups,          \* the four quadrants the matrix view rendered
    currentSortOrder,      \* DailyHabitTrackerView.currentSortOrder
    currentSortDirection,  \* DailyHabitTrackerView.currentSortDirection
    processedTasks,  \* the habit tasks in the order the tracker rendered them
    scannedOn,       \* the day of the scan the tracker's habitTasks come from
    polledOn,        \* the day of the tracker's last completed reloadAndRender
    pendingWrites,   \* handlers between their vault.read and their vault.modify
    pendingScans,    \* reloadAndRender calls between their vault.read and their end
    scanSeq,         \* per view: scans started, and which scan's result is stored
    timers,          \* per view: _refreshTimer, the intervals set and not cleared
    last,            \* what the last handler did (observation)
    hist             \* the days on which a habit completion wrote the line

vars == <<doc, today, settings, matrixTasks, matrixJson, habitTasks, habitJson,
          checkboxOff, groups, currentSortOrder, currentSortDirection,
          processedTasks, scannedOn, polledOn, pendingWrites, pendingScans,
          scanSeq, timers, last, hist>>

\* What the two views have on screen besides the task lists.
rendering ==
    <<groups, currentSortOrder, currentSortDirection, processedTasks, scannedOn>>

\* What is under way in the background: handlers and scans at an await, timers.
background == <<pendingWrites, pendingScans, scanSeq, timers>>

\* The two polling views.
Views == {"matrix", "tracker"}

\* A view before onOpen: _refreshTimer is null and no interval is set.
NoTimer == [handle |-> <<>>, active |-> {}, made |-> 0, opening |-> FALSE,
            closed |-> FALSE]

---------------------------------------------------------------------------
\* Bounds of the model.
FirstDay == 2
MaxDay == 4
MaxStreak == 2
MaxCount == 2
MaxOps == 3
MaxLines == 2
MaxAnnotations == 2
MaxEdits == 1
MaxPending == 2
MaxScans == 3
MaxTasks == 3

---------------------------------------------------------------------------
\* Optional values.
None == <<>>
Some(x) == <<x>>
IsSome(o) == Len(o) > 0
OrElse(o, d) == IF Len(o) > 0 THEN o[1] ELSE d

Max(a, b) == IF a >= b THEN a ELSE b

MinOf(S) == CHOOSE x \in S : \A y \in S : x <= y

Tok(k, v) == [k |-> k, v |-> v]

\* Positions of the tokens of the given kinds.
Indices(line, K) == {i \in 1..Len(line) : line[i].k \in K}

Has(line, K) == Indices(line, K) # {}

\* RegExp.exec: the first match.
FirstTok(line, K) ==
    IF Has(line, K) THEN Some(line[MinOf(Indices(line, K))]) ELSE None

FirstVal(line, K) ==
    IF Has(line, K) THEN Some(line[MinOf(Indices(line, K))].v) ELSE None

\* String.replace(/.../g, ''): every match removed.
Strip(line, K) == SelectSeq(line, LAMBDA t : t.k \notin K)

\* String.replace without the g flag: the first match replaced.
ReplaceAt(line, i, t) == [line EXCEPT ![i] = t]

\* `x === undefined` for x the value of `a || b` over booleans.
StrictEqUndefined(x) == x \notin BOOLEAN

---------------------------------------------------------------------------
\* Token kinds.
BoxOpen == Tok("box", 0)
BoxDone == Tok("box", 1)
Word(n) == Tok("text", n)

ImportanceKinds == {"impHigh", "impLow"}
UrgencyKinds == {"urgHigh", "urgLow"}
HabitKinds == {"habitDaily", "habitWeekly"}

\* importance::high, urgency::low, ... written without the brackets.
BareImportanceKinds == {"bareImpHigh", "bareImpLow"}
BareUrgencyKinds == {"bareUrgHigh", "bareUrgLow"}

\* The tokens whose text starts with "[": every bracket tag and the legacy count.
BracketKinds ==
    ImportanceKinds \cup UrgencyKinds \cup HabitKinds \cup
    {"dur", "acc", "success", "legacy", "lastDone", "streak", "maxStreak",
     "lastStreakDate", "attr"}

\* Trailing [N] at end of line: /\[(-?\d+)]\s*$/
TrailingLegacy(line) ==
    IF Len(line) > 0 /\ line[Len(line)].k = "legacy"
    THEN Some(line[Len(line)].v) ELSE None

\* The hourglass glyph is shared by the duration and the scheduled date:
\* "durE" is the glyph directly followed by an integer, "sched" the glyph, white
\* space and a date, "schedTight" the glyph directly followed by a date.
\* /\u23F3\s*(\d{4}-\d{2}-\d{2})/ matches the last two.
ScheduledKinds == {"sched", "schedTight"}

\* /\u23F3(\d+)/ matches the glyph directly followed by digits: the integer of a
\* duration and also the year of a date written without white space.
DigitsAfterGlyph == {"durE", "schedTight"}

\* The year of a day of the model: its days all lie in 2025.
YearOf(day) == 2025

\* The digits /\u23F3(\d+)/ captures from the token.
LeadingDigits(t) == IF t.k = "schedTight" THEN YearOf(t.v) ELSE t.v

\* Faulty variant: the habit type is looked at before the scheduled date.
TaskTypeOf_HabitFirst(scheduledDate, habitType) ==
    IF IsSome(habitType) THEN "repeated-daily"
    ELSE IF IsSome(scheduledDate) THEN "scheduled"
    ELSE "regular"

TaskTypeOf(scheduledDate, habitType) ==
    IF IsSome(scheduledDate) THEN "scheduled"
    ELSE IF IsSome(habitType) THEN "repeated-daily"
    ELSE "regular"

parseTask(line, lineNumber) ==
    LET importance == FirstTok(line, ImportanceKinds)
        urgency == FirstTok(line, UrgencyKinds)
        duration == FirstVal(line, {"dur"})
        isUrgent == Has(line, {"urgE"})
                    \/ (IsSome(urgency) /\ OrElse(urgency, BoxOpen).k = "urgHigh")
        isImportant == Has(line, {"impE"})
                    \/ (IsSome(importance) /\ OrElse(importance, BoxOpen).k = "impHigh")
        glyphDigits == FirstTok(line, DigitsAfterGlyph)
        durationMinutes ==
            IF IsSome(glyphDigits) THEN LeadingDigits(glyphDigits[1])
            ELSE OrElse(duration, 0)
        habitMatch == FirstTok(line, HabitKinds)
        hasHabitEmoji == Has(line, {"habitE"})
        habitType ==
            IF IsSome(habitMatch)
            THEN Some(IF habitMatch[1].k = "habitDaily" THEN "daily" ELSE "weekly")
            ELSE IF hasHabitEmoji THEN Some("daily") ELSE None
        accumulated == Has(line, {"acc", "accE"})
        successMatch == FirstVal(line, {"success"})
        accumulatedCount ==
            IF IsSome(successMatch) THEN successMatch ELSE TrailingLegacy(line)
        lastDoneDate == FirstVal(line, {"lastDone"})
        currentStreak == FirstVal(line, {"streak"})
        maxStreak == FirstVal(line, {"maxStreak"})
        lastStreakDate == FirstVal(line, {"lastStreakDate"})
        scheduledDate == FirstVal(line, ScheduledKinds)
        taskType == TaskTypeOf(scheduledDate, habitType)
        startDate == FirstVal(line, {"start"})
        attributeName == FirstVal(line, {"attr"})
    IN  IF StrictEqUndefined(isUrgent) /\ StrictEqUndefined(isImportant)
           /\ ~IsSome(habitType) /\ ~accumulated /\ ~IsSome(scheduledDate)
           /\ ~IsSome(startDate) /\ ~IsSome(attributeName)
        THEN None
        ELSE Some([content |-> line,
                   importance |-> IF isImportant THEN "high" ELSE "low",
                   urgency |-> IF isUrgent THEN "high" ELSE "low",
                   durationMinutes |-> durationMinutes,
                   line |-> lineNumber,
                   habitType |-> habitType,
                   accumulated |-> accumulated,
                   accumulatedCount |->
                       IF accumulated THEN Some(OrElse(accumulatedCount, 0)) ELSE None,
                   lastDoneDate |-> lastDoneDate,
                   taskType |-> taskType,
                   scheduledDate |-> scheduledDate,
                   startDate |-> startDate,
                   currentStreak |-> currentStreak,
                   maxStreak |-> maxStreak,
                   lastStreakDate |-> lastStreakDate,
                   attributeName |-> attributeName])

\* The record of a line without annotations, for the names of the fields.
NoTask == parseTask(<<BoxOpen>>, 1)[1]

---------------------------------------------------------------------------
\* The four quadrants of the matrix.
Quadrants ==
    {"Urgent & Important", "Not Urgent but Important",
     "Urgent but Not Important", "Neither Urgent nor Important"}

\* Faulty variant: the last quadrant takes every task of low importance.
groupTasks_LowImportanceTwice(tasks) ==
    [q \in Quadrants |->
        CASE q = "Urgent & Important" ->
               SelectSeq(tasks, LAMBDA t : t.importance = "high" /\ t.urgency = "high")
          [] q = "Not Urgent but Important" ->
               SelectSeq(tasks, LAMBDA t : t.importance = "high" /\ t.urgency = "low")
          [] q = "Urgent but Not Important" ->
               SelectSeq(tasks, LAMBDA t : t.importance = "low" /\ t.urgency = "high")
          [] OTHER ->
               SelectSeq(tasks, LAMBDA t : t.importance = "low")]

groupTasks(tasks) ==
    [q \in Quadrants |->
        CASE q = "Urgent & Important" ->
               SelectSeq(tasks, LAMBDA t : t.importance = "high" /\ t.urgency = "high")
          [] q = "Not Urgent but Important" ->
               SelectSeq(tasks, LAMBDA t : t.importance = "high" /\ t.urgency = "low")
          [] q = "Urgent but Not Important" ->
               SelectSeq(tasks, LAMBDA t : t.importance = "low" /\ t.urgency = "high")
          [] OTHER ->
               SelectSeq(tasks, LAMBDA t : t.importance = "low" /\ t.urgency = "low")]

---------------------------------------------------------------------------
\* Sorting of the habit tracker.

\* direction === 'asc' ? 1 : -1
Modifier(direction) == IF direction = "asc" THEN 1 ELSE 0 - 1

\* `a.accumulated ?? false` and `a.accumulatedCount ?? 0`
IsAccumulated(t) == t.accumulated
CountOrZero(t) == OrElse(t.accumulatedCount, 0)

CompareProgress(a, b, modifier) ==
    IF IsAccumulated(a) /\ ~IsAccumulated(b) THEN 0 - 1
    ELSE IF ~IsAccumulated(a) /\ IsAccumulated(b) THEN 1
    ELSE IF IsAccumulated(a) /\ IsAccumulated(b)
         THEN (CountOrZero(b) - CountOrZero(a)) * modifier
         ELSE 0

\* String.localeCompare on two YYYY-MM-DD literals: -1, 0 or 1 by calendar order.
localeCompare(x, y) == IF x < y THEN 0 - 1 ELSE IF x > y THEN 1 ELSE 0

\* Faulty variant: the direction is ignored for dated tasks.
CompareStartDate_DirectionIgnored(a, b, modifier) ==
    IF IsSome(a.startDate) /\ ~IsSome(b.startDate) THEN 0 - 1
    ELSE IF ~IsSome(a.startDate) /\ IsSome(b.startDate) THEN 1
    ELSE IF IsSome(a.startDate) /\ IsSome(b.startDate)
         THEN localeCompare(a.startDate[1], b.startDate[1])
         ELSE 0

CompareStartDate(a, b, modifier) ==
    IF IsSome(a.startDate) /\ ~IsSome(b.startDate) THEN 0 - 1
    ELSE IF ~IsSome(a.startDate) /\ IsSome(b.startDate) THEN 1
    ELSE IF IsSome(a.startDate) /\ IsSome(b.startDate)
         THEN localeCompare(a.startDate[1], b.startDate[1]) * modifier
         ELSE 0

CompareTasks(a, b, sortKey, direction) ==
    IF sortKey = "progress" THEN CompareProgress(a, b, Modifier(direction))
    ELSE IF sortKey = "startDate" THEN CompareStartDate(a, b, Modifier(direction))
    ELSE 0

\* Array.prototype.sort is stable: x goes behind every element that does not
\* compare greater than it.
RECURSIVE InsertSorted(_, _, _, _)
InsertSorted(x, sorted, sortKey, direction) ==
    IF sorted = <<>> THEN <<x>>
    ELSE IF CompareTasks(Head(sorted), x, sortKey, direction) <= 0
         THEN <<Head(sorted)>> \o InsertSorted(x, Tail(sorted), sortKey, direction)
         ELSE <<x>> \o sorted

RECURSIVE SortFrom(_, _, _, _)
SortFrom(tasks, sorted, sortKey, direction) ==
    IF tasks = <<>> THEN sorted
    ELSE SortFrom(Tail(tasks), InsertSorted(Head(tasks), sorted, sortKey, direction),
                  sortKey, direction)

sortHabitTasks(tasks, sortKey, direction) ==
    IF sortKey = "default" THEN tasks
    ELSE SortFrom(tasks, <<>>, sortKey, direction)

---------------------------------------------------------------------------
\* Dates.
getTodayDateStr(now) == now
getYesterdayDateStr(now) == now - 1

StreakResult(n, u) == [newStreak |-> n, shouldUpdate |-> u]

\* Faulty variant: the streak is reset as soon as the day has no completion yet.
calculateStreakFromDates_EagerReset(lastDoneDate, lastStreakDate, currentStreak, now) ==
    LET t == getTodayDateStr(now)
        y == getYesterdayDateStr(now)
    IN  IF ~IsSome(lastDoneDate) THEN StreakResult(0, FALSE)
        ELSE IF lastDoneDate = Some(t) /\ lastStreakDate = Some(t)
             THEN StreakResult(currentStreak, FALSE)
        ELSE IF lastDoneDate = Some(t)
             THEN IF lastStreakDate = Some(y)
                  THEN StreakResult(currentStreak + 1, TRUE)
                  ELSE StreakResult(1, TRUE)
        ELSE StreakResult(0, TRUE)

calculateStreakFromDates(lastDoneDate, lastStreakDate, currentStreak, now) ==
    LET t == getTodayDateStr(now)
        y == getYesterdayDateStr(now)
    IN  IF ~IsSome(lastDoneDate) THEN StreakResult(0, FALSE)
        ELSE IF lastDoneDate = Some(t) /\ lastStreakDate = Some(t)
             THEN StreakResult(currentStreak, FALSE)
        ELSE IF lastDoneDate = Some(t)
             THEN IF lastStreakDate = Some(y)
                  THEN StreakResult(currentStreak + 1, TRUE)
                  ELSE StreakResult(1, TRUE)
        ELSE IF lastDoneDate = Some(y) /\ lastStreakDate = Some(y)
             THEN StreakResult(currentStreak, FALSE)
        ELSE StreakResult(0, TRUE)

---------------------------------------------------------------------------
\* Array access lines[idx] with idx = lineNumber - 1: undefined out of range.
LineAt(d, lineNumber) ==
    IF lineNumber \in 1..Len(d) THEN Some(d[lineNumber]) ELSE None

\* `lines[idx] && ...` / `!line`: undefined and the empty string are falsy.
Truthy(optLine) == IsSome(optLine) /\ Len(optLine[1]) > 0

\* What a mutation leaves behind: the document, whether vault.modify ran,
\* whether an exception escaped, the notice shown and the streak computation.
Outcome(d, wrote, threw, notice, streak) ==
    [doc |-> d, wrote |-> wrote, threw |-> threw, notice |-> notice,
     streak |-> streak]

HabitStripKinds == {"lastDone", "streak", "maxStreak", "lastStreakDate"}

\* Faulty variant: the best streak is carried over without the new streak.
NewMaxStreak_CarriedOver(newStreak, task) == OrElse(task.maxStreak, 0)

NewMaxStreak(newStreak, task) == Max(newStreak, OrElse(task.maxStreak, 0))

StreakCall(task, now) ==
    [lastDoneDate |-> task.lastDoneDate,
     lastStreakDate |-> task.lastStreakDate,
     currentStreak |-> OrElse(task.currentStreak, 0),
     res |-> calculateStreakFromDates(task.lastDoneDate, task.lastStreakDate,
                                      OrElse(task.currentStreak, 0), now)]

StreakTokens(newStreak, task, now) ==
    <<Tok("streak", newStreak),
      Tok("maxStreak", NewMaxStreak(newStreak, task)),
      Tok("lastStreakDate", getTodayDateStr(now))>>

markHabitTaskDoneWithDate(d, lineNumber, originalLine, now, enableStreakTracking) ==
    LET cur == LineAt(d, lineNumber)
    IN  IF Truthy(cur) /\ cur[1] = originalLine
        THEN LET newLine == Strip(cur[1], HabitStripKinds)
                            \o <<Tok("lastDone", getTodayDateStr(now))>>
                 task == parseTask(cur[1], lineNumber)
             IN  IF enableStreakTracking
                 THEN IF ~IsSome(task)
                      THEN Outcome(d, FALSE, FALSE, "Could not parse task", None)
                      ELSE LET call == StreakCall(task[1], now)
                           IN  IF call.res.shouldUpdate
                               THEN Outcome(
                                      [d EXCEPT ![lineNumber] = newLine
                                         \o StreakTokens(call.res.newStreak, task[1], now)],
                                      TRUE, FALSE, "Habit completed!", Some(call))
                               ELSE Outcome([d EXCEPT ![lineNumber] = newLine],
                                      TRUE, FALSE, "Habit marked as complete for today!",
                                      Some(call))
                 ELSE Outcome([d EXCEPT ![lineNumber] = newLine], TRUE, FALSE,
                              "Habit marked as complete for today!", None)
        ELSE Outcome(d, FALSE, FALSE, "Could not match habit task line.", None)

---------------------------------------------------------------------------
\* Accumulated counters.

\* split(/(habit::|accumulated::|accumulated-count::|\[\d+]|importance::|urgency::|duration::)/)
SplitKinds == HabitKinds \cup {"acc", "dur"} \cup ImportanceKinds \cup UrgencyKinds

\* The same keys written without brackets.
BareSplitKinds == BareImportanceKinds \cup BareUrgencyKinds

SplitIndices(line) ==
    {i \in 1..Len(line) :
        \/ line[i].k \in SplitKinds \cup BareSplitKinds
        \/ (line[i].k = "legacy" /\ line[i].v >= 0)}

\* The text before the first split point, trimmed: the tokens before it and,
\* when the split point is a key inside a bracket tag, the tag's opening "[".
LinePrefix(line) ==
    LET I == SplitIndices(line)
        cut == IF I = {} THEN Len(line) + 1 ELSE MinOf(I)
    IN  [toks |-> SubSeq(line, 1, cut - 1),
         open |-> I # {} /\ line[cut].k \in SplitKinds]

\* String.startsWith on the two prefixes.
StartsWith(lp, op) ==
    LET n == Len(op.toks)
    IN  /\ Len(lp.toks) >= n
        /\ SubSeq(lp.toks, 1, n) = op.toks
        /\ op.open =>
             IF Len(lp.toks) > n THEN lp.toks[n + 1].k \in BracketKinds ELSE lp.open

\* /\[success::\d+]/ : a success tag with an unsigned number.
UnsignedSuccess(line) == {i \in 1..Len(line) : line[i].k = "success" /\ line[i].v >= 0}

\* /\[\d+\]\s*$/ : an unsigned [N] closing the line.
UnsignedTrailing(line) ==
    Len(line) > 0 /\ line[Len(line)].k = "legacy" /\ line[Len(line)].v >= 0

IncrementLine(line) ==
    IF UnsignedSuccess(line) # {}
    THEN LET i == MinOf(UnsignedSuccess(line))
         IN  ReplaceAt(line, i, Tok("success", line[i].v + 1))
    ELSE IF UnsignedTrailing(line)
         THEN ReplaceAt(line, Len(line), Tok("success", line[Len(line)].v + 1))
         ELSE line \o <<Tok("success", 1)>>

\* Faulty variant: the count is lowered without the floor at 0.
DecrementLine_NoFloor(line) ==
    IF UnsignedSuccess(line) # {}
    THEN LET i == MinOf(UnsignedSuccess(line))
         IN  ReplaceAt(line, i, Tok("success", line[i].v - 1))
    ELSE IF UnsignedTrailing(line)
         THEN ReplaceAt(line, Len(line), Tok("success", line[Len(line)].v - 1))
         ELSE line \o <<Tok("success", 0)>>

DecrementLine(line) ==
    IF UnsignedSuccess(line) # {}
    THEN LET i == MinOf(UnsignedSuccess(line))
         IN  ReplaceAt(line, i, Tok("success", Max(0, line[i].v - 1)))
    ELSE IF UnsignedTrailing(line)
         THEN ReplaceAt(line, Len(line),
                        Tok("success", Max(0, line[Len(line)].v - 1)))
         ELSE line \o <<Tok("success", 0)>>

ClearLine(line) ==
    IF UnsignedSuccess(line) # {}
    THEN ReplaceAt(line, MinOf(UnsignedSuccess(line)), Tok("success", 0))
    ELSE IF UnsignedTrailing(line)
         THEN ReplaceAt(line, Len(line), Tok("success", 0))
         ELSE line \o <<Tok("success", 0)>>

\* Every counter written on the document is at most n (bounds the increments).
CountersWithin(d, n) ==
    \A l \in 1..Len(d) : \A j \in 1..Len(d[l]) :
        d[l][j].k \in {"success", "legacy"} => d[l][j].v <= n

\* The three counter mutations share everything but the rewrite of the line.
CounterMutation(d, lineNumber, originalLine, newLine, notice) ==
    LET cur == LineAt(d, lineNumber)
    IN  IF ~Truthy(cur)
        THEN Outcome(d, FALSE, FALSE, "Could not match accumulated task line.", None)
        ELSE IF ~StartsWith(LinePrefix(cur[1]), LinePrefix(originalLine))
        THEN Outcome(d, FALSE, FALSE, "Could not match accumulated task line.", None)
        ELSE Outcome([d EXCEPT ![lineNumber] = newLine], TRUE, FALSE, notice, None)

incrementAccumulatedTask(d, lineNumber, originalLine) ==
    CounterMutation(d, lineNumber, originalLine,
        IncrementLine(OrElse(LineAt(d, lineNumber), <<>>)),
        "Accumulated task count incremented!")

decrementAccumulatedTask(d, lineNumber, originalLine) ==
    CounterMutation(d, lineNumber, originalLine,
        DecrementLine(OrElse(LineAt(d, lineNumber), <<>>)),
        "Accumulated task count decremented!")

clearAccumulatedTask(d, lineNumber, originalLine) ==
    CounterMutation(d, lineNumber, originalLine,
        ClearLine(OrElse(LineAt(d, lineNumber), <<>>)),
        "Accumulated task count cleared!")

---------------------------------------------------------------------------
\* Done-marking and quadrant moves.

\* String.includes('- [ ]') and String.replace('- [ ]', '- [x]'): first occurrence.
OpenBoxes(line) == {i \in 1..Len(line) : line[i] = BoxOpen}

markEisenhowerTaskDone(d, lineNumber, originalLine) ==
    LET cur == LineAt(d, lineNumber)
    IN  IF Truthy(cur) /\ OpenBoxes(cur[1]) # {}
        THEN Outcome([d EXCEPT ![lineNumber] =
                         ReplaceAt(cur[1], MinOf(OpenBoxes(cur[1])), BoxDone)],
                     TRUE, FALSE, "Task marked as complete!", None)
        ELSE Outcome(d, FALSE, FALSE,
                     "Could not find incomplete task to mark as done.", None)

ImportanceTok(level) == Tok(IF level = "high" THEN "impHigh" ELSE "impLow", 0)
UrgencyTok(level) == Tok(IF level = "high" THEN "urgHigh" ELSE "urgLow", 0)

\* replace(/\[importance::\s*(high|low)\]/gi, ...) and the urgency twin, then the
\* two appends when no tag of the kind is on the line.
RetagLine(line, newImportance, newUrgency) ==
    LET swapped == [i \in 1..Len(line) |->
                      IF line[i].k \in ImportanceKinds THEN ImportanceTok(newImportance)
                      ELSE IF line[i].k \in UrgencyKinds THEN UrgencyTok(newUrgency)
                      ELSE line[i]]
        withImp == IF Has(swapped, ImportanceKinds) THEN swapped
                   ELSE swapped \o <<ImportanceTok(newImportance)>>
    IN  IF Has(withImp, UrgencyKinds) THEN withImp
        ELSE withImp \o <<UrgencyTok(newUrgency)>>

moveTaskToQuadrant(d, task, newImportance, newUrgency) ==
    LET cur == LineAt(d, task.line)
    IN  IF task.importance = newImportance /\ task.urgency = newUrgency
        THEN Outcome(d, FALSE, FALSE, "", None)
        ELSE IF ~IsSome(cur)
        THEN Outcome(d, FALSE, TRUE, "", None)   \* undefined.replace: TypeError
        ELSE Outcome([d EXCEPT ![task.line] = RetagLine(cur[1], newImportance, newUrgency)],
                     TRUE, FALSE, "Task moved", None)

\* vault.create / processFrontMatter of the daily note may reject (noteFails);
\* the try block then skips the rest and the catch reports it.
handleAttributeHabitCompletion(d, task, now, cfg, noteFails) ==
    IF ~cfg.dailyNotePath
    THEN [out |-> Outcome(d, FALSE, FALSE, "Please set the daily notes path", None),
          noteUpdated |-> FALSE, noteFailed |-> FALSE, markCalled |-> FALSE]
    ELSE IF ~IsSome(task.attributeName)
    THEN [out |-> Outcome(d, FALSE, FALSE, "", None),
          noteUpdated |-> FALSE, noteFailed |-> FALSE, markCalled |-> FALSE]
    ELSE IF noteFails
    THEN [out |-> Outcome(d, FALSE, FALSE, "Error updating daily note.", None),
          noteUpdated |-> FALSE, noteFailed |-> TRUE, markCalled |-> FALSE]
    ELSE [out |-> markHabitTaskDoneWithDate(d, task.line, task.content, now,
                                            cfg.enableStreakTracking),
          noteUpdated |-> TRUE, noteFailed |-> FALSE, markCalled |-> TRUE]

---------------------------------------------------------------------------
\* Scans of the two polling views.

LineNumbers(d) == [i \in 1..Len(d) |-> i]

\* Faulty variant: /^- \[.\]/, any checkbox.
IsOpenTask_AnyBox(line) == Len(line) > 0 /\ line[1].k = "box"

\* /^- \[ \]/
IsOpenTask(line) == Len(line) > 0 /\ line[1] = BoxOpen

\* Faulty variant: only the bracket tags and the emoji admit a line.
MatrixEligible_BracketsOnly(line) ==
    /\ IsOpenTask(line)
    /\ \/ Has(line, ImportanceKinds \cup {"impE"})
       \/ Has(line, UrgencyKinds \cup {"urgE"})

\* /importance::\s*(high|low)/ and /urgency::\s*(high|low)/ match the key with
\* or without brackets.
MatrixEligible(line) ==
    /\ IsOpenTask(line)
    /\ \/ Has(line, ImportanceKinds \cup BareImportanceKinds \cup {"impE"})
       \/ Has(line, UrgencyKinds \cup BareUrgencyKinds \cup {"urgE"})

\* Faulty variant: the scan appends to the tasks the view already holds.
MatrixScan_Accumulating(d) ==
    LET hits == SelectSeq(LineNumbers(d),
                    LAMBDA i : MatrixEligible(d[i]) /\ IsSome(parseTask(d[i], i)))
    IN  matrixTasks \o [j \in 1..Len(hits) |-> parseTask(d[hits[j]], hits[j])[1]]

MatrixScan(d) ==
    LET hits == SelectSeq(LineNumbers(d),
                    LAMBDA i : MatrixEligible(d[i]) /\ IsSome(parseTask(d[i], i)))
    IN  [j \in 1..Len(hits) |-> parseTask(d[hits[j]], hits[j])[1]]

MatrixFingerprint(tasks) ==
    [j \in 1..Len(tasks) |->
        [line |-> tasks[j].line, content |-> tasks[j].content,
         importance |-> tasks[j].importance, urgency |-> tasks[j].urgency]]

TrackerKeeps(task, now) ==
    IF IsSome(task.habitType) THEN TRUE
    ELSE task.taskType = "scheduled" /\ task.scheduledDate = Some(now)

TrackerType(task) ==
    IF task.taskType = "scheduled" THEN "scheduled" ELSE OrElse(task.habitType, "daily")

WithType(task) ==
    [f \in DOMAIN task \cup {"type"} |-> IF f = "type" THEN TrackerType(task) ELSE task[f]]

TrackerScan(d, now) ==
    LET hits == SelectSeq(LineNumbers(d),
                    LAMBDA i : /\ IsOpenTask(d[i])
                               /\ IsSome(parseTask(d[i], i))
                               /\ TrackerKeeps(parseTask(d[i], i)[1], now))
    IN  [j \in 1..Len(hits) |-> WithType(parseTask(d[hits[j]], hits[j])[1])]

TrackerFingerprint(tasks) ==
    [j \in 1..Len(tasks) |->
        [line |-> tasks[j].line, content |-> tasks[j].content,
         accumulated |-> tasks[j].accumulated,
         accumulatedCount |-> tasks[j].accumulatedCount,
         lastDoneDate |-> tasks[j].lastDoneDate, type |-> tasks[j].type,
         taskType |-> tasks[j].taskType, scheduledDate |-> tasks[j].scheduledDate]]

\* createHabitSection: a habit's checkbox is disabled when it was done today.
RenderCheckboxes(tasks, now) ==
    [j \in 1..Len(tasks) |-> tasks[j].lastDoneDate = Some(getTodayDateStr(now))]

\* showEisenhowerMatrix: the same filter as the matrix view (its fallback branch
\* for importance::low with urgency::low is taken by no line: such a line
\* already has an importance signal).
LegacyMatrixScan(d) ==
    LET hits == SelectSeq(LineNumbers(d),
                    LAMBDA i : MatrixEligible(d[i]) /\ IsSome(parseTask(d[i], i)))
    IN  [j \in 1..Len(hits) |-> parseTask(d[hits[j]], hits[j])[1]]

\* showHabitTracker: the open lines that parse to a habit.
LegacyHabitScan(d) ==
    LET hits == SelectSeq(LineNumbers(d),
                    LAMBDA i : /\ IsOpenTask(d[i])
                               /\ IsSome(parseTask(d[i], i))
                               /\ IsSome(parseTask(d[i], i)[1].habitType))
    IN  [j \in 1..Len(hits) |-> parseTask(d[hits[j]], hits[j])[1]]

---------------------------------------------------------------------------
\* Observation of the last handler.
Obs(op, task, pre, out, now) ==
    [op |-> op, line |-> task.line, original |-> task.content, pre |-> pre,
     wrote |-> out.wrote, threw |-> out.threw, notice |-> out.notice,
     streak |-> out.streak, noteFailed |-> FALSE, noteUpdated |-> FALSE,
     markCalled |-> FALSE, now |-> now, parsed |-> None,
     importance |-> "", urgency |-> ""]

NoObs ==
    [op |-> "none", line |-> 0, original |-> <<>>, pre |-> <<>>,
     wrote |-> FALSE, threw |-> FALSE, notice |-> "", streak |-> None,
     noteFailed |-> FALSE, noteUpdated |-> FALSE, markCalled |-> FALSE,
     now |-> 0, parsed |-> None, importance |-> "", urgency |-> ""]

\* The history of the run: `clean` says the line started without last-done and
\* streak annotations and has since been written only by habit completions with
\* streak tracking on; `days` are the days of those writes; `ops` counts the
\* handlers run and `edits` the edits from outside (both bounded).
HistAfter(h, out, now, streakOn) ==
    IF ~out.wrote THEN [h EXCEPT !.ops = @ + 1]
    ELSE [h EXCEPT !.ops = @ + 1, !.clean = h.clean /\ streakOn,
                   !.days = Append(h.days, now)]

Taint(h, out) ==
    IF ~out.wrote THEN [h EXCEPT !.ops = @ + 1]
    ELSE [h EXCEPT !.ops = @ + 1, !.clean = FALSE]

---------------------------------------------------------------------------
\* The clock and the settings tab.
AdvanceDay ==
    /\ today < MaxDay
    /\ today' = today + 1
    /\ UNCHANGED <<doc, settings, matrixTasks, matrixJson, habitTasks, habitJson,
                   checkboxOff, last, hist>>
    /\ UNCHANGED <<rendering, polledOn, background>>

ToggleStreakTracking ==
    /\ settings' = [settings EXCEPT !.enableStreakTracking = ~@]
    /\ UNCHANGED <<doc, today, matrixTasks, matrixJson, habitTasks, habitJson,
                   checkboxOff, last, hist>>
    /\ UNCHANGED <<rendering, polledOn, background>>

---------------------------------------------------------------------------
\* EisenhowerMatrixView.

\* The end of reloadAndRender: the scanned tasks are stored and rendered when
\* their fingerprint is not the stored one.
MatrixStore(tasks) ==
    IF Some(MatrixFingerprint(tasks)) # matrixJson
    THEN /\ matrixTasks' = tasks
         /\ matrixJson' = Some(MatrixFingerprint(tasks))
         /\ groups' = groupTasks(tasks)
    ELSE UNCHANGED <<matrixTasks, matrixJson, groups>>

\* reloadAndRender with no other handler running between its read and its end.
MatrixReload(d) == MatrixStore(MatrixScan(d))

\* A reloadAndRender that finds the tasks changed.
MatrixReloadAndRender ==
    /\ Some(MatrixFingerprint(MatrixScan(doc))) # matrixJson
    /\ MatrixReload(doc)
    /\ UNCHANGED <<doc, today, settings, habitTasks, habitJson, checkboxOff,
                   currentSortOrder, currentSortDirection, processedTasks,
                   scannedOn, polledOn, background, last, hist>>

\* The interval callback of onOpen: reloadAndRender, changed tasks or not.
MatrixRefresh ==
    /\ MatrixReload(doc)
    /\ UNCHANGED <<doc, today, settings, habitTasks, habitJson, checkboxOff,
                   currentSortOrder, currentSortDirection, processedTasks,
                   scannedOn, polledOn, background, last, hist>>

MatrixCompleteHabit(i) ==
    /\ i \in 1..Len(matrixTasks)
    /\ matrixTasks[i].taskType = "repeated-daily"
    /\ hist.ops < MaxOps
    /\ LET out == markHabitTaskDoneWithDate(doc, matrixTasks[i].line,
                      matrixTasks[i].content, today, settings.enableStreakTracking)
       IN  /\ doc' = out.doc
           /\ last' = Obs("markHabit", matrixTasks[i], doc, out, today)
           /\ hist' = HistAfter(hist, out, today, settings.enableStreakTracking)
    /\ UNCHANGED <<today, settings, matrixTasks, matrixJson, habitTasks, habitJson,
                   checkboxOff>>
    /\ UNCHANGED <<rendering, polledOn, background>>

MatrixCompleteRegular(i) ==
    /\ hist.ops < MaxOps
    /\ i \in 1..Len(matrixTasks)
    /\ matrixTasks[i].taskType # "repeated-daily"
    /\ LET out == markEisenhowerTaskDone(doc, matrixTasks[i].line,
                                         matrixTasks[i].content)
       IN  /\ doc' = out.doc
           /\ last' = Obs("markDone", matrixTasks[i], doc, out, today)
           /\ hist' = Taint(hist, out)
    /\ UNCHANGED <<today, settings, matrixTasks, matrixJson, habitTasks, habitJson,
                   checkboxOff>>
    /\ UNCHANGED <<rendering, polledOn, background>>

MatrixMove(i, newImportance, newUrgency) ==
    /\ hist.ops < MaxOps
    /\ i \in 1..Len(matrixTasks)
    /\ LET out == moveTaskToQuadrant(doc, matrixTasks[i], newImportance, newUrgency)
       IN  /\ doc' = out.doc
           /\ last' = [Obs("move", matrixTasks[i], doc, out, today)
                          EXCEPT !.importance = newImportance,
                                 !.urgency = newUrgency]
           /\ hist' = Taint(hist, out)
    /\ UNCHANGED <<today, settings, matrixTasks, matrixJson, habitTasks, habitJson,
                   checkboxOff>>
    /\ UNCHANGED <<rendering, polledOn, background>>

---------------------------------------------------------------------------
\* DailyHabitTrackerView.

\* reloadAndRender, from the document as it will be after the handler's write.
\* reloadAndRender without the comparison of fingerprints.
TrackerStore_Ungated(tasks, scanDay) ==
    /\ habitTasks' = tasks
    /\ habitJson' = Some(TrackerFingerprint(tasks))
    /\ checkboxOff' = RenderCheckboxes(tasks, today)
    /\ processedTasks' = sortHabitTasks(tasks, currentSortOrder,
                                        currentSortDirection)
    /\ scannedOn' = Some(scanDay)
    /\ polledOn' = Some(today)

\* The end of reloadAndRender: the tasks of a scan made on scanDay are stored
\* and rendered when their fingerprint is not the stored one.
TrackerStore(tasks, scanDay) ==
    /\ IF Some(TrackerFingerprint(tasks)) # habitJson
       THEN /\ habitTasks' = tasks
            /\ habitJson' = Some(TrackerFingerprint(tasks))
            /\ checkboxOff' = RenderCheckboxes(tasks, today)
            /\ processedTasks' = sortHabitTasks(tasks, currentSortOrder,
                                                currentSortDirection)
            /\ scannedOn' = Some(scanDay)
       ELSE UNCHANGED <<habitTasks, habitJson, checkboxOff, processedTasks,
                        scannedOn>>
    /\ polledOn' = Some(today)

TrackerReload(d) == TrackerStore(TrackerScan(d, today), today)

\* A reloadAndRender that finds the tasks changed.
TrackerReloadAndRender ==
    /\ Some(TrackerFingerprint(TrackerScan(doc, today))) # habitJson
    /\ TrackerReload(doc)
    /\ UNCHANGED <<doc, today, settings, matrixTasks, matrixJson, groups,
                   currentSortOrder, currentSortDirection, background, last, hist>>

\* The interval callback of onOpen: reloadAndRender, changed tasks or not.
TrackerRefresh ==
    /\ TrackerReload(doc)
    /\ UNCHANGED <<doc, today, settings, matrixTasks, matrixJson, groups,
                   currentSortOrder, currentSortDirection, background, last, hist>>

\* renderUI after a change of the sort controls: the list is sorted anew and
\* every checkbox is created anew from the tasks the view holds.
RenderSorted(sortKey, direction) ==
    /\ currentSortOrder' = sortKey
    /\ currentSortDirection' = direction
    /\ processedTasks' = sortHabitTasks(habitTasks, sortKey, direction)
    /\ checkboxOff' = RenderCheckboxes(habitTasks, today)
    /\ UNCHANGED <<doc, today, settings, matrixTasks, matrixJson, habitTasks,
                   habitJson, groups, scannedOn, polledOn, background, last,
                   hist>>

SortKeys == {"default", "progress", "startDate"}

\* sortDropdown.onchange
SelectSortOrder(sortKey) ==
    /\ IsSome(habitJson)
    /\ sortKey # currentSortOrder
    /\ RenderSorted(sortKey, IF sortKey = "progress" THEN "desc" ELSE "asc")

\* sortDirectionToggle.onclick
ToggleSortDirection ==
    /\ IsSome(habitJson)
    /\ currentSortOrder # "default"
    /\ RenderSorted(currentSortOrder,
                    IF currentSortDirection = "asc" THEN "desc" ELSE "asc")

TrackerCheckHabit(i) ==
    /\ i \in 1..Len(habitTasks)
    /\ ~habitTasks[i].accumulated
    /\ ~checkboxOff[i]
    /\ ~(IsSome(habitTasks[i].attributeName) /\ settings.dailyNotePath)
    /\ hist.ops < MaxOps
    /\ LET out == markHabitTaskDoneWithDate(doc, habitTasks[i].line,
                      habitTasks[i].content, today, settings.enableStreakTracking)
       IN  /\ doc' = out.doc
           /\ last' = Obs("markHabit", habitTasks[i], doc, out, today)
           /\ hist' = HistAfter(hist, out, today, settings.enableStreakTracking)
    /\ checkboxOff' = [checkboxOff EXCEPT ![i] = TRUE]
    /\ UNCHANGED <<today, settings, matrixTasks, matrixJson, habitTasks, habitJson>>
    /\ UNCHANGED <<rendering, polledOn, background>>

TrackerCheckAttribute(i, noteFails) ==
    /\ i \in 1..Len(habitTasks)
    /\ ~habitTasks[i].accumulated
    /\ ~checkboxOff[i]
    /\ IsSome(habitTasks[i].attributeName) /\ settings.dailyNotePath
    /\ hist.ops < MaxOps
    /\ LET r == handleAttributeHabitCompletion(doc, habitTasks[i], today, settings,
                                               noteFails)
       IN  /\ doc' = r.out.doc
           /\ last' = [Obs("attributeHabit", habitTasks[i], doc, r.out, today)
                          EXCEPT !.noteFailed = r.noteFailed,
                                 !.noteUpdated = r.noteUpdated,
                                 !.markCalled = r.markCalled]
           /\ hist' = HistAfter(hist, r.out, today, settings.enableStreakTracking)
    /\ checkboxOff' = [checkboxOff EXCEPT ![i] = TRUE]
    /\ UNCHANGED <<today, settings, matrixTasks, matrixJson, habitTasks, habitJson>>
    /\ UNCHANGED <<rendering, polledOn, background>>

TrackerIncrement(i) ==
    /\ hist.ops < MaxOps
    /\ i \in 1..Len(habitTasks)
    /\ habitTasks[i].accumulated
    /\ CountersWithin(doc, MaxCount)
    /\ LET out == incrementAccumulatedTask(doc, habitTasks[i].line,
                                           habitTasks[i].content)
       IN  /\ doc' = out.doc
           /\ last' = Obs("increment", habitTasks[i], doc, out, today)
           /\ hist' = Taint(hist, out)
           /\ TrackerReload(out.doc)
    /\ UNCHANGED <<today, settings, matrixTasks, matrixJson>>
    /\ UNCHANGED <<groups, currentSortOrder, currentSortDirection, background>>

\* The + button up to the handler's await of vault.read: the handler holds the
\* document it read, and other handlers run before it goes on. The button is
\* disabled while its handler runs.
TrackerIncrementRead(i) ==
    /\ hist.ops + Len(pendingWrites) < MaxOps
    /\ Len(pendingWrites) < MaxPending
    /\ i \in 1..Len(habitTasks)
    /\ habitTasks[i].accumulated
    /\ \A j \in DOMAIN pendingWrites : pendingWrites[j].line # habitTasks[i].line
    /\ CountersWithin(doc, MaxCount)
    /\ pendingWrites' = Append(pendingWrites,
                               [line |-> habitTasks[i].line,
                                original |-> habitTasks[i].content,
                                read |-> doc])
    /\ UNCHANGED <<doc, today, settings, matrixTasks, matrixJson, habitTasks,
                   habitJson, checkboxOff, rendering, polledOn, pendingScans,
                   scanSeq, timers, last, hist>>

\* The rest of the handler: the new line is computed from the document that
\* was read, vault.modify writes the whole file, and the view reloads.
TrackerIncrementWrite(k) ==
    /\ k \in 1..Len(pendingWrites)
    /\ LET p == pendingWrites[k]
           out == incrementAccumulatedTask(p.read, p.line, p.original)
       IN  /\ doc' = out.doc
           /\ last' = Obs("increment", [line |-> p.line, content |-> p.original],
                          doc, out, today)
           /\ hist' = Taint(hist, out)
           /\ TrackerReload(out.doc)
    /\ pendingWrites' = [j \in 1..(Len(pendingWrites) - 1) |->
                            IF j < k THEN pendingWrites[j] ELSE pendingWrites[j + 1]]
    /\ UNCHANGED <<today, settings, matrixTasks, matrixJson, groups,
                   currentSortOrder, currentSortDirection, pendingScans, scanSeq,
                   timers>>

TrackerDecrement(i) ==
    /\ hist.ops < MaxOps
    /\ i \in 1..Len(habitTasks)
    /\ habitTasks[i].accumulated
    /\ OrElse(habitTasks[i].accumulatedCount, 0) > 0
    /\ LET out == decrementAccumulatedTask(doc, habitTasks[i].line,
                                           habitTasks[i].content)
       IN  /\ doc' = out.doc
           /\ last' = Obs("decrement", habitTasks[i], doc, out, today)
           /\ hist' = Taint(hist, out)
           /\ TrackerReload(out.doc)
    /\ UNCHANGED <<today, settings, matrixTasks, matrixJson>>
    /\ UNCHANGED <<groups, currentSortOrder, currentSortDirection, background>>

TrackerClear(i) ==
    /\ hist.ops < MaxOps
    /\ i \in 1..Len(habitTasks)
    /\ habitTasks[i].accumulated
    /\ OrElse(habitTasks[i].accumulatedCount, 0) > 0
    /\ LET out == clearAccumulatedTask(doc, habitTasks[i].line,
                                       habitTasks[i].content)
       IN  /\ doc' = out.doc
           /\ last' = Obs("clear", habitTasks[i], doc, out, today)
           /\ hist' = Taint(hist, out)
           /\ TrackerReload(out.doc)
    /\ UNCHANGED <<today, settings, matrixTasks, matrixJson>>
    /\ UNCHANGED <<groups, currentSortOrder, currentSortDirection, background>>

---------------------------------------------------------------------------
\* Initial documents.

OptTok(k, S) == {<<>>} \cup {<<Tok(k, v)>> : v \in S}

\* A daily habit that also carries the urgency emoji, so both views list it.
HabitLines ==
    {<<BoxOpen, Word(1), Tok("urgE", 0), Tok("habitDaily", 0)>> \o ld \o st \o mx \o sd :
        ld \in OptTok("lastDone", 0..FirstDay),
        st \in OptTok("streak", 0..MaxStreak),
        mx \in OptTok("maxStreak", 0..MaxStreak),
        sd \in OptTok("lastStreakDate", 0..FirstDay)}

NoStreakState(line) == ~Has(line, HabitStripKinds)

InitViews ==
    /\ matrixTasks = <<>>
    /\ matrixJson = None
    /\ habitTasks = <<>>
    /\ habitJson = None
    /\ checkboxOff = <<>>
    /\ groups = groupTasks(<<>>)
    /\ currentSortOrder = "default"
    /\ currentSortDirection = "asc"
    /\ processedTasks = <<>>
    /\ scannedOn = None
    /\ polledOn = None
    /\ pendingWrites = <<>>
    /\ pendingScans = {}
    /\ scanSeq = [v \in Views |-> [started |-> 0, stored |-> 0]]
    /\ timers = [v \in Views |-> NoTimer]
    /\ last = NoObs

InitHabit ==
    /\ doc \in {<<l>> : l \in HabitLines}
    /\ today = FirstDay
    /\ settings = [enableStreakTracking |-> TRUE, dailyNotePath |-> FALSE]
    /\ InitViews
    /\ hist = [clean |-> NoStreakState(doc[1]), days |-> <<>>, edits |-> 0, ops |-> 0]

NextHabit ==
    \/ AdvanceDay
    \/ ToggleStreakTracking
    \/ MatrixReloadAndRender
    \/ \E i \in 1..MaxLines : MatrixCompleteHabit(i)

SpecHabit == InitHabit /\ [][NextHabit]_vars

---------------------------------------------------------------------------
\* Edits made in the editor or by another plugin between a scan and a click.

HabitLine == <<BoxOpen, Word(1), Tok("urgE", 0), Tok("habitDaily", 0)>>
AttributeLine == <<BoxOpen, Word(2), Tok("habitDaily", 0), Tok("attr", 1)>>
CounterLine == <<BoxOpen, Word(3), Tok("habitDaily", 0), Tok("acc", 0), Tok("success", 1)>>
MatrixLine == <<BoxOpen, Word(4), Tok("impHigh", 0), Tok("urgLow", 0)>>
PlainLine == <<BoxOpen, Word(5)>>

Catalogue == {HabitLine, AttributeLine, CounterLine, MatrixLine, PlainLine}

Edited(d) ==
    /\ hist.edits < MaxEdits
    /\ doc' = d
    /\ last' = [NoObs EXCEPT !.op = "edit"]
    /\ hist' = [hist EXCEPT !.clean = FALSE, !.edits = @ + 1]
    /\ UNCHANGED <<today, settings, matrixTasks, matrixJson, habitTasks, habitJson,
                   checkboxOff>>
    /\ UNCHANGED <<rendering, polledOn, background>>

EditInsertAbove ==
    /\ Len(doc) < MaxLines
    /\ Edited(<<PlainLine>> \o doc)

EditDeleteFirst ==
    /\ Len(doc) > 0
    /\ Edited(Tail(doc))

EditReplace(n, l) ==
    /\ n \in 1..Len(doc)
    /\ l # doc[n]
    /\ Edited([doc EXCEPT ![n] = l])

---------------------------------------------------------------------------
\* Accumulated habits in the tracker view.

Counts == (0 - MaxCount)..MaxCount

\* An accumulated daily habit: the marker as tag or emoji, an optional duration
\* emoji, and the counter as [success::N], as a trailing [N], or absent.
CounterLines ==
    {<<BoxOpen, Word(1), Tok("habitDaily", 0)>> \o mk \o du \o c :
        mk \in {<<Tok("acc", 0)>>, <<Tok("accE", 0)>>},
        du \in OptTok("durE", {5}),
        c \in OptTok("success", Counts) \cup OptTok("legacy", Counts)}

InitCounter ==
    /\ doc \in {<<l>> : l \in CounterLines}
    /\ today = FirstDay
    /\ settings = [enableStreakTracking |-> TRUE, dailyNotePath |-> FALSE]
    /\ InitViews
    /\ hist = [clean |-> FALSE, days |-> <<>>, edits |-> 0, ops |-> 0]

NextCounter ==
    \/ \E n \in 1..MaxLines, l \in CounterLines : EditReplace(n, l)
    \/ TrackerReloadAndRender
    \/ \E i \in 1..MaxLines : TrackerIncrement(i)
    \/ \E i \in 1..MaxLines : TrackerDecrement(i)
    \/ \E i \in 1..MaxLines : TrackerClear(i)

SpecCounter == InitCounter /\ [][NextCounter]_vars

---------------------------------------------------------------------------
\* The parser on its own.

Alphabet ==
    {Tok(k, 0) : k \in ImportanceKinds \cup UrgencyKinds \cup HabitKinds
                      \cup BareImportanceKinds \cup BareUrgencyKinds
                      \cup {"impE", "urgE", "habitE", "acc", "accE"}}
    \cup {Tok("dur", 30), Tok("durE", 15), Tok("sched", FirstDay),
          Tok("schedTight", FirstDay),
          Tok("start", FirstDay), Tok("attr", 1), Tok("success", 1),
          Tok("legacy", 2), Tok("lastDone", FirstDay), Tok("streak", 1),
          Tok("maxStreak", 2), Tok("lastStreakDate", FirstDay), Word(2)}

RECURSIVE SeqsUpTo(_, _)
SeqsUpTo(S, n) ==
    IF n = 0 THEN {<<>>}
    ELSE SeqsUpTo(S, n - 1)
         \cup {Append(q, x) : q \in {r \in SeqsUpTo(S, n - 1) : Len(r) = n - 1}, x \in S}

ParseLines ==
    {<<b, Word(1)>> \o q : b \in {BoxOpen, BoxDone}, q \in SeqsUpTo(Alphabet, MaxAnnotations)}

InitParse ==
    /\ doc \in {<<l>> : l \in ParseLines}
    /\ today = FirstDay
    /\ settings = [enableStreakTracking |-> TRUE, dailyNotePath |-> FALSE]
    /\ InitViews
    /\ hist = [clean |-> FALSE, days |-> <<>>, edits |-> 0, ops |-> 0]

\* parseTask(line, file, lineNumber) on a line of the document.
ParseLine(n) ==
    /\ n \in 1..Len(doc)
    /\ last.op = "none"
    /\ last' = [NoObs EXCEPT !.op = "parse", !.line = n,
                              !.parsed = parseTask(doc[n], n)]
    /\ UNCHANGED <<doc, today, settings, matrixTasks, matrixJson, habitTasks,
                   habitJson, checkboxOff, hist>>
    /\ UNCHANGED <<rendering, polledOn, background>>

NextParse == \E n \in 1..MaxLines : ParseLine(n)

SpecParse == InitParse /\ [][NextParse]_vars

---------------------------------------------------------------------------
\* The sort controls of the tracker view.

\* Daily habits: accumulated ones with their count, simple ones with or without
\* a start date, and an accumulated one with a start date.
SortLines ==
    {<<BoxOpen, Word(1), Tok("habitDaily", 0), Tok("acc", 0), Tok("success", c)>> :
        c \in 0..MaxCount}
    \cup {<<BoxOpen, Word(1), Tok("habitDaily", 0)>> \o sd :
             sd \in OptTok("start", (FirstDay - 1)..FirstDay)}
    \cup {<<BoxOpen, Word(1), Tok("habitDaily", 0), Tok("acc", 0),
             Tok("success", MaxCount), Tok("start", FirstDay)>>}

Documents(lines) == SeqsUpTo(lines, MaxTasks) \ {<<>>}

InitSort ==
    /\ doc \in Documents(SortLines)
    /\ today = FirstDay
    /\ settings = [enableStreakTracking |-> TRUE, dailyNotePath |-> FALSE]
    /\ InitViews
    /\ hist = [clean |-> FALSE, days |-> <<>>, edits |-> 0, ops |-> 0]

NextSort ==
    \/ TrackerReloadAndRender
    \/ \E sortKey \in SortKeys : SelectSortOrder(sortKey)
    \/ ToggleSortDirection

SpecSort == InitSort /\ [][NextSort]_vars

---------------------------------------------------------------------------
\* Scans of an unchanged document over several days.

ScheduledLine(day) == <<BoxOpen, Word(6), Tok("sched", day)>>
DoneLine == <<BoxDone, Word(7), Tok("urgE", 0), Tok("habitDaily", 0)>>

ScanLines ==
    {<<BoxOpen, Word(4)>> \o q :
        q \in {<<Tok("impHigh", 0), Tok("urgHigh", 0)>>, <<Tok("impE", 0)>>,
                <<Tok("urgE", 0)>>, <<Tok("impLow", 0), Tok("urgLow", 0)>>}}
    \cup {HabitLine, PlainLine, DoneLine}
    \cup {ScheduledLine(day) : day \in FirstDay..(FirstDay + 1)}

InitScan ==
    /\ doc \in Documents(ScanLines)
    /\ today = FirstDay
    /\ settings = [enableStreakTracking |-> TRUE, dailyNotePath |-> FALSE]
    /\ InitViews
    /\ hist = [clean |-> FALSE, days |-> <<>>, edits |-> 0, ops |-> 0]

NextScan ==
    \/ AdvanceDay
    \/ MatrixReloadAndRender
    \/ TrackerReloadAndRender

SpecScan == InitScan /\ [][NextScan]_vars

---------------------------------------------------------------------------
\* The example tasks of the README in the matrix view and the legacy modal.

ReadmeExample1 ==
    <<BoxOpen, Word(11), Tok("urgE", 0), Tok("impE", 0), Tok("bareImpHigh", 0),
      Tok("bareUrgHigh", 0)>>
ReadmeExample2 ==
    <<BoxOpen, Word(12), Tok("impE", 0), Tok("bareImpHigh", 0), Tok("bareUrgLow", 0)>>
ReadmeExample3 ==
    <<BoxOpen, Word(13), Tok("urgE", 0), Tok("bareImpLow", 0), Tok("bareUrgHigh", 0)>>
ReadmeExample4 ==
    <<BoxOpen, Word(14), Tok("bareImpLow", 0), Tok("bareUrgLow", 0)>>

ReadmeLines == {ReadmeExample1, ReadmeExample2, ReadmeExample3, ReadmeExample4}

\* The command "Show Eisenhower Matrix (Legacy Modal)".
ShowEisenhowerMatrix ==
    /\ last' = [NoObs EXCEPT !.op = "modal",
                              !.parsed = Some(groupTasks(LegacyMatrixScan(doc)))]
    /\ UNCHANGED <<doc, today, settings, matrixTasks, matrixJson, habitTasks,
                   habitJson, checkboxOff, hist>>
    /\ UNCHANGED <<rendering, polledOn, background>>

InitReadme ==
    /\ doc \in Documents(ReadmeLines \cup {PlainLine})
    /\ today = FirstDay
    /\ settings = [enableStreakTracking |-> TRUE, dailyNotePath |-> FALSE]
    /\ InitViews
    /\ hist = [clean |-> FALSE, days |-> <<>>, edits |-> 0, ops |-> 0]

NextReadme ==
    \/ MatrixReloadAndRender
    \/ ShowEisenhowerMatrix

SpecReadme == InitReadme /\ [][NextReadme]_vars

---------------------------------------------------------------------------
\* Done-marking from the matrix view, with edits from outside in between.

InitDone ==
    /\ doc \in {q \in SeqsUpTo(Catalogue \cup {DoneLine}, MaxLines) : q # <<>>}
    /\ today = FirstDay
    /\ settings = [enableStreakTracking |-> TRUE, dailyNotePath |-> FALSE]
    /\ InitViews
    /\ hist = [clean |-> FALSE, days |-> <<>>, edits |-> 0, ops |-> 0]

NextDone ==
    \/ EditInsertAbove
    \/ EditDeleteFirst
    \/ MatrixReloadAndRender
    \/ TrackerReloadAndRender
    \/ \E i \in 1..MaxLines : MatrixCompleteRegular(i)

SpecDone == InitDone /\ [][NextDone]_vars

---------------------------------------------------------------------------
\* Both views over a document that is also edited from outside the plugin.

Init ==
    /\ doc \in {<<l>> : l \in Catalogue}
    /\ today = FirstDay
    /\ settings \in [enableStreakTracking : {TRUE}, dailyNotePath : BOOLEAN]
    /\ InitViews
    /\ hist = [clean |-> NoStreakState(doc[1]), days |-> <<>>, edits |-> 0, ops |-> 0]

Levels == {"high", "low"}

Next ==
    \/ EditInsertAbove
    \/ EditDeleteFirst
    \/ \E n \in 1..MaxLines, l \in Catalogue : EditReplace(n, l)
    \/ MatrixReloadAndRender
    \/ TrackerReloadAndRender
    \/ \E i \in 1..MaxLines : MatrixCompleteHabit(i)
    \/ \E i \in 1..MaxLines : MatrixCompleteRegular(i)
    \/ \E i \in 1..MaxLines, im \in Levels, ur \in Levels : MatrixMove(i, im, ur)
    \/ \E i \in 1..MaxLines : TrackerCheckHabit(i)
    \/ \E i \in 1..MaxLines, noteFails \in BOOLEAN : TrackerCheckAttribute(i, noteFails)
    \/ \E i \in 1..MaxLines : TrackerIncrement(i)
    \/ \E i \in 1..MaxLines : TrackerDecrement(i)
    \/ \E i \in 1..MaxLines : TrackerClear(i)

Spec == Init /\ [][Next]_vars

---------------------------------------------------------------------------
\* Properties of the habit streak state machine (SpecHabit).

\* The task parsed from line n of the document now / before the last handler.
Cur(n) == parseTask(doc[n], n)[1]
Pre(n) == parseTask(last.pre[n], n)[1]

Consecutive(days) == \A j \in 2..Len(days) : days[j] = days[j - 1] + 1

HabitWrite == last.op \in {"markHabit", "attributeHabit"} /\ last.wrote

\* C1: from a habit line without last-done and streak annotations, one
\* completion on each of k consecutive days leaves currentStreak = k.
C1_StreakCountsConsecutiveDays ==
    (hist.clean /\ Len(hist.days) >= 1 /\ Consecutive(hist.days))
        => Cur(1).currentStreak = Some(Len(hist.days))

\* C2: completing today a habit with last-done = last-streak-date = yesterday
\* and streak = N computes {N+1, true} and writes last-done = today,
\* last-streak-date = today and streak = N+1.
C2_StreakContinuity ==
    (/\ HabitWrite /\ IsSome(last.streak)
     /\ Pre(last.line).lastDoneDate = Some(getYesterdayDateStr(last.now))
     /\ Pre(last.line).lastStreakDate = Some(getYesterdayDateStr(last.now))
     /\ IsSome(Pre(last.line).currentStreak))
        => /\ last.streak[1].res =
                StreakResult(Pre(last.line).currentStreak[1] + 1, TRUE)
           /\ Cur(last.line).lastDoneDate = Some(last.now)
           /\ Cur(last.line).lastStreakDate = Some(last.now)
           /\ Cur(last.line).currentStreak =
                Some(Pre(last.line).currentStreak[1] + 1)

\* The last two completions that wrote the line happened on the same day.
SecondSameDay ==
    /\ HabitWrite /\ IsSome(last.streak)
    /\ Len(hist.days) >= 2
    /\ hist.days[Len(hist.days)] = hist.days[Len(hist.days) - 1]

\* C3: the second completion of a day computes shouldUpdate = false and leaves
\* the parsed currentStreak as the first completion left it.
C3_StreakIdempotence ==
    SecondSameDay
        => /\ ~last.streak[1].res.shouldUpdate
           /\ Cur(last.line).currentStreak = Pre(last.line).currentStreak

\* C4: a habit completion never lowers the maxStreak parsed from the line
\* (absent counted as 0).
C4_MaxStreakMonotonic ==
    HabitWrite
        => OrElse(Cur(last.line).maxStreak, 0) >= OrElse(Pre(last.line).maxStreak, 0)

\* Where a date on the line lies relative to the day of the call.
DateClass(d, now) ==
    IF ~IsSome(d) THEN "absent"
    ELSE IF d[1] = now THEN "today"
    ELSE IF d[1] = now - 1 THEN "yesterday"
    ELSE IF d[1] < now - 1 THEN "older"
    ELSE "future"

SixRulePolicy(ld, ls, currentStreak) ==
    CASE ld = "absent" -> StreakResult(0, FALSE)
      [] ld = "today" /\ ls = "today" -> StreakResult(currentStreak, FALSE)
      [] ld = "today" /\ ls = "yesterday" -> StreakResult(currentStreak + 1, TRUE)
      [] ld = "today" /\ ls \notin {"today", "yesterday"} -> StreakResult(1, TRUE)
      [] ld = "yesterday" /\ ls = "yesterday" -> StreakResult(currentStreak, FALSE)
      [] OTHER -> StreakResult(0, TRUE)

\* C5: calculateStreakFromDates returns what the six-rule policy prescribes, for
\* every last-done and last-streak date that is absent, today, yesterday or older
\* and every current streak.
C5_SixRulePolicy ==
    IsSome(last.streak) =>
        LET c == last.streak[1]
            ld == DateClass(c.lastDoneDate, last.now)
            ls == DateClass(c.lastStreakDate, last.now)
        IN  (ld # "future" /\ ls # "future")
                => c.res = SixRulePolicy(ld, ls, c.currentStreak)

\* A streak of 2 whose last completion is older than yesterday is reset to 0.
C5_Witness ==
    /\ IsSome(last.streak)
    /\ DateClass(last.streak[1].lastDoneDate, last.now) = "older"
    /\ last.streak[1].currentStreak = 2
    /\ last.streak[1].res = StreakResult(0, TRUE)

\* C6: after a completion that updates the streak, the streak written to the
\* line is at most the max-streak written to it.
C6_StreakAtMostMax ==
    (HabitWrite /\ IsSome(last.streak) /\ last.streak[1].res.shouldUpdate)
        => /\ IsSome(Cur(last.line).currentStreak)
           /\ IsSome(Cur(last.line).maxStreak)
           /\ Cur(last.line).currentStreak[1] <= Cur(last.line).maxStreak[1]

\* A streak update whose new streak exceeds the best streak the line carried.
C6_Witness ==
    /\ HabitWrite /\ IsSome(last.streak) /\ last.streak[1].res.shouldUpdate
    /\ last.streak[1].res.newStreak > OrElse(Pre(last.line).maxStreak, 0)
    /\ Cur(last.line).maxStreak = Some(last.streak[1].res.newStreak)

---------------------------------------------------------------------------
\* Properties of the parser (SpecParse).

SignalKinds ==
    ImportanceKinds \cup UrgencyKinds \cup HabitKinds
    \cup {"impE", "urgE", "habitE", "acc", "accE", "sched", "schedTight", "start",
          "attr"}

LacksAllSignals(line) == ~Has(line, SignalKinds)

\* C7: a line without importance/urgency signal, habit marker, accumulated
\* marker, scheduled date, start date and attribute name parses to absent.
C7_AdmissionInvariant ==
    (last.op = "parse" /\ LacksAllSignals(doc[last.line])) => ~IsSome(last.parsed)

---------------------------------------------------------------------------
\* Properties of the accumulated counter (SpecCounter).

\* The handler was invoked with the text the line has.
AppliedToCurrentText(op) ==
    /\ last.op = op
    /\ LineAt(last.pre, last.line) = Some(last.original)

OtherFields == DOMAIN NoTask \ {"content", "accumulatedCount"}

\* C8: an increment applied to an accumulated line, then a re-parse, gives
\* accumulatedCount one greater and every other parsed field unchanged.
C8_IncrementRoundTrip ==
    (AppliedToCurrentText("increment") /\ Pre(last.line).accumulated)
        => /\ last.wrote
           /\ Cur(last.line).accumulatedCount =
                Some(Pre(last.line).accumulatedCount[1] + 1)
           /\ \A f \in OtherFields : Cur(last.line)[f] = Pre(last.line)[f]

---------------------------------------------------------------------------
\* Properties of the mutations against a document edited from outside (Spec).

\* The line at the handler's line number is not the text the handler was given.
ExactMismatch == LineAt(last.pre, last.line) # Some(last.original)

\* The line is missing or empty, or its content prefix does not start with the
\* content prefix of the text the handler was given.
PrefixMismatch ==
    \/ ~Truthy(LineAt(last.pre, last.line))
    \/ ~StartsWith(LinePrefix(last.pre[last.line]), LinePrefix(last.original))

Aborted == ~last.wrote /\ ~last.threw /\ doc = last.pre

\* C9: a mutation whose target line no longer matches the expected content
\* (exactly for done-marking, by content prefix for the counter, streak and
\* quadrant mutations) aborts without throwing and leaves the document unchanged.
C9_DivergenceAborts ==
    /\ (last.op = "markDone" /\ ExactMismatch) => Aborted
    /\ (last.op \in {"markHabit", "attributeHabit", "increment", "decrement",
                     "clear", "move"} /\ PrefixMismatch) => Aborted

\* C10: when the daily-note update of an attribute habit fails, the completion
\* mark on the habit line is still attempted.
C10_LocalMarkStillAttempted ==
    (last.op = "attributeHabit" /\ last.noteFailed) => last.markCalled

---------------------------------------------------------------------------
\* Frame of the line mutations (SpecHabit).

\* The annotations a mutation is meant to rewrite.
Targeted ==
    CASE last.op = "markDone" -> {"box"}
      [] last.op \in {"increment", "decrement", "clear"} -> {"success", "legacy"}
      [] last.op \in {"markHabit", "attributeHabit"} ->
           IF IsSome(last.streak) /\ last.streak[1].res.shouldUpdate
           THEN {"lastDone", "streak", "maxStreak", "lastStreakDate"}
           ELSE {"lastDone"}
      [] OTHER -> {}

Occurrences(line, t) == Cardinality({i \in 1..Len(line) : line[i] = t})

\* Every token of `before` outside the kinds K is as often on `after`.
Preserved(before, after, K) ==
    \A i \in 1..Len(before) :
        before[i].k \notin K
            => Occurrences(after, before[i]) = Occurrences(before, before[i])

\* C11: a mutation that wrote a line left every annotation it does not target
\* on the line with its value; a habit completion without a streak update
\* leaves the streak, max-streak and last-streak-date annotations as they were.
C11_MutationFrame ==
    (last.wrote /\ last.op \in {"markDone", "increment", "decrement", "clear",
                                  "markHabit", "attributeHabit"})
        => Preserved(last.pre[last.line], doc[last.line], Targeted)

---------------------------------------------------------------------------
\* Properties of the rendered matrix (SpecScan).

Count(seq, x) == Cardinality({i \in 1..Len(seq) : seq[i] = x})

RECURSIVE SumOver(_, _)
SumOver(S, f) ==
    IF S = {} THEN 0
    ELSE LET q == CHOOSE x \in S : TRUE IN f[q] + SumOver(S \ {q}, f)

QuadrantNamed(importance, urgency) ==
    CASE importance = "high" /\ urgency = "high" -> "Urgent & Important"
      [] importance = "high" /\ urgency = "low" -> "Not Urgent but Important"
      [] importance = "low" /\ urgency = "high" -> "Urgent but Not Important"
      [] OTHER -> "Neither Urgent nor Important"

\* C12: the four quadrants rendered from the scanned tasks are pairwise
\* disjoint, together hold every task exactly as often as the scan does, and
\* each task is in the quadrant named by its importance and urgency.
C12_QuadrantPartition ==
    /\ \A q \in Quadrants : \A j \in 1..Len(groups[q]) :
          /\ QuadrantNamed(groups[q][j].importance, groups[q][j].urgency) = q
          /\ \A r \in Quadrants \ {q} : Count(groups[r], groups[q][j]) = 0
    /\ \A i \in 1..Len(matrixTasks) :
          SumOver(Quadrants, [q \in Quadrants |-> Count(groups[q], matrixTasks[i])])
              = Count(matrixTasks, matrixTasks[i])
    /\ SumOver(Quadrants, [q \in Quadrants |-> Len(groups[q])]) = Len(matrixTasks)

\* Three scanned tasks rendered into three different quadrants.
C12_Witness ==
    /\ Len(matrixTasks) = 3
    /\ Cardinality({q \in Quadrants : Len(groups[q]) > 0}) = 3

---------------------------------------------------------------------------
\* Properties of the sorted tracker list (SpecSort).

\* No task of the second kind stands before a task of the first kind.
FirstKindFirst(seq, IsFirstKind(_)) ==
    \A i, j \in 1..Len(seq) :
        (i < j /\ IsFirstKind(seq[j])) => IsFirstKind(seq[i])

\* Among the tasks of the kind, the key does not increase / decrease.
NonIncreasing(seq, OfKind(_), Key(_)) ==
    \A i, j \in 1..Len(seq) :
        (i < j /\ OfKind(seq[i]) /\ OfKind(seq[j])) => Key(seq[i]) >= Key(seq[j])

NonDecreasing(seq, OfKind(_), Key(_)) ==
    \A i, j \in 1..Len(seq) :
        (i < j /\ OfKind(seq[i]) /\ OfKind(seq[j])) => Key(seq[i]) <= Key(seq[j])

HasStartDate(t) == IsSome(t.startDate)
StartDateOf(t) == OrElse(t.startDate, 0)

\* C13: sorted by progress, accumulated tasks come before the others; direction
\* desc shows them by non-increasing count, direction asc by non-decreasing count.
C13_ProgressSort ==
    currentSortOrder = "progress"
        => /\ FirstKindFirst(processedTasks, IsAccumulated)
           /\ currentSortDirection = "desc"
                => NonIncreasing(processedTasks, IsAccumulated, CountOrZero)
           /\ currentSortDirection = "asc"
                => NonDecreasing(processedTasks, IsAccumulated, CountOrZero)

\* C14: sorted by start date, dated tasks come before the others; direction asc
\* shows them by non-decreasing date, direction desc by non-increasing date.
C14_StartDateSort ==
    currentSortOrder = "startDate"
        => /\ FirstKindFirst(processedTasks, HasStartDate)
           /\ currentSortDirection = "asc"
                => NonDecreasing(processedTasks, HasStartDate, StartDateOf)
           /\ currentSortDirection = "desc"
                => NonIncreasing(processedTasks, HasStartDate, StartDateOf)

\* Sorted by start date, latest first: the scan had an undated task first and
\* the earlier of two dates before the later one.
C14_Witness ==
    /\ currentSortOrder = "startDate" /\ currentSortDirection = "desc"
    /\ Len(habitTasks) = 3
    /\ ~HasStartDate(habitTasks[1])
    /\ HasStartDate(habitTasks[2]) /\ HasStartDate(habitTasks[3])
    /\ StartDateOf(habitTasks[2]) < StartDateOf(habitTasks[3])
    /\ processedTasks = <<habitTasks[3], habitTasks[2], habitTasks[1]>>

---------------------------------------------------------------------------
\* Precedence in the parser (SpecParse).

LevelOf(t) == IF t.k \in {"impHigh", "urgHigh"} THEN "high" ELSE "low"

\* C15: on a line with both the bracket form and the emoji form of a field,
\* the parsed importance, urgency, duration and habit type are the bracket's.
C15_BracketPrecedence ==
    last.op = "parse" =>
        LET line == doc[last.line]
            task == last.parsed[1]
        IN  /\ (Has(line, ImportanceKinds) /\ Has(line, {"impE"}))
                  => task.importance = LevelOf(FirstTok(line, ImportanceKinds)[1])
            /\ (Has(line, UrgencyKinds) /\ Has(line, {"urgE"}))
                  => task.urgency = LevelOf(FirstTok(line, UrgencyKinds)[1])
            /\ (Has(line, {"dur"}) /\ Has(line, {"durE"}))
                  => task.durationMinutes = FirstVal(line, {"dur"})[1]
            /\ (Has(line, HabitKinds) /\ Has(line, {"habitE"}))
                  => task.habitType =
                       Some(IF FirstTok(line, HabitKinds)[1].k = "habitDaily"
                            THEN "daily" ELSE "weekly")

\* C16: the glyph followed by a date, with or without white space, gives a
\* scheduled date and no duration; the glyph directly followed by an integer N
\* gives the duration N and no scheduled date.
C16_DurationVersusScheduled ==
    last.op = "parse" =>
        LET line == doc[last.line]
            task == last.parsed[1]
        IN  /\ (Has(line, ScheduledKinds) /\ ~Has(line, {"durE"}))
                  => /\ task.scheduledDate = FirstVal(line, ScheduledKinds)
                     /\ task.durationMinutes = OrElse(FirstVal(line, {"dur"}), 0)
            /\ (Has(line, {"durE"}) /\ ~Has(line, ScheduledKinds))
                  => /\ task.durationMinutes = FirstVal(line, {"durE"})[1]
                     /\ ~IsSome(task.scheduledDate)

---------------------------------------------------------------------------
\* Floor and reset of the accumulated counter (SpecCounter).

CounterWrite(op) ==
    /\ last.op = op /\ last.wrote
    /\ Pre(last.line).accumulated

\* C17: a decrement of a counter n >= 0 leaves max(0, n - 1), never a negative
\* count.
C17_CounterFloor ==
    (CounterWrite("decrement") /\ Pre(last.line).accumulatedCount[1] >= 0)
        => Cur(last.line).accumulatedCount =
             Some(Max(0, Pre(last.line).accumulatedCount[1] - 1))

\* A decrement of a counter that stood at 0 leaves it at 0.
C17_Witness ==
    /\ CounterWrite("decrement")
    /\ Pre(last.line).accumulatedCount = Some(0)
    /\ Cur(last.line).accumulatedCount = Some(0)

\* C18: after a reset the line parses to the count 0, whatever counter it
\* carried.
C18_CounterReset ==
    CounterWrite("clear") => Cur(last.line).accumulatedCount = Some(0)

---------------------------------------------------------------------------
\* Eligibility of a line for the scans (SpecDone).

StartsOpen(line) == Len(line) > 0 /\ line[1] = Tok("box", 0)
StartsDone(line) == Len(line) > 0 /\ line[1] = Tok("box", 1)

ScannedLines(tasks) == {tasks[j].line : j \in 1..Len(tasks)}

\* The lines any of the four scans returns a task for.
AllScannedLines(d, now) ==
    ScannedLines(MatrixScan(d)) \cup ScannedLines(TrackerScan(d, now))
    \cup ScannedLines(LegacyMatrixScan(d)) \cup ScannedLines(LegacyHabitScan(d))

\* C19: after the done-marking of an open task line the line starts with
\* "- [x]" and no scan returns a task for it; every line a scan returns a task
\* for starts with "- [ ]".
C19_Eligibility ==
    /\ (last.op = "markDone" /\ last.wrote /\ StartsOpen(last.pre[last.line]))
          => /\ StartsDone(doc[last.line])
             /\ last.line \notin AllScannedLines(doc, today)
    /\ \A n \in AllScannedLines(doc, today) : StartsOpen(doc[n])

\* The matrix view still lists the task whose line was just marked done, and a
\* new scan does not return it.
C19_Witness ==
    /\ last.op = "markDone" /\ last.wrote
    /\ last.line \in ScannedLines(matrixTasks)
    /\ last.pre[last.line] = last.original
    /\ StartsDone(doc[last.line])
    /\ last.line \notin AllScannedLines(doc, today)

---------------------------------------------------------------------------
\* Repeated scans of an unchanged document (SpecScan).

StrictlyAscending(tasks) ==
    \A i, j \in 1..Len(tasks) : i < j => tasks[i].line < tasks[j].line

\* C20 as stated: a new scan of the unchanged document gives the records the
\* views hold from their last scan, in the same order and without duplicates.
C20_RescanSameRecords ==
    /\ IsSome(matrixJson)
          => MatrixScan(doc) = matrixTasks /\ StrictlyAscending(matrixTasks)
    /\ IsSome(habitJson)
          => TrackerScan(doc, today) = habitTasks /\ StrictlyAscending(habitTasks)

\* C20 amended: the same, for the tracker view when the new scan happens on
\* the day of the last one (its scan keeps the tasks scheduled for the day).
C20_RescanSameRecordsSameDay ==
    /\ IsSome(matrixJson)
          => MatrixScan(doc) = matrixTasks /\ StrictlyAscending(matrixTasks)
    /\ (IsSome(habitJson) /\ scannedOn = Some(today))
          => TrackerScan(doc, today) = habitTasks /\ StrictlyAscending(habitTasks)

\* Both views hold two or more tasks of a document scanned a day earlier, and
\* the tracker has scanned again today.
C20_Witness ==
    /\ today > FirstDay
    /\ Len(matrixTasks) >= 2 /\ MatrixScan(doc) = matrixTasks
    /\ Len(habitTasks) >= 2 /\ scannedOn = Some(today)
    /\ TrackerScan(doc, today) = habitTasks

---------------------------------------------------------------------------
\* The documented example tasks (SpecReadme).

ExampleQuadrant ==
    {<<ReadmeExample1, "Urgent & Important">>,
     <<ReadmeExample2, "Not Urgent but Important">>,
     <<ReadmeExample3, "Urgent but Not Important">>,
     <<ReadmeExample4, "Neither Urgent nor Important">>}

\* Every example line of the document has its task in the quadrant of its heading.
ExamplesPlaced(g) ==
    \A n \in 1..Len(doc) : \A e \in ExampleQuadrant :
        doc[n] = e[1] => \E j \in 1..Len(g[e[2]]) : g[e[2]][j].line = n

\* C21: each of the four example lines of the README is admitted by the matrix
\* scan (view and legacy modal) and is rendered in the quadrant its heading names.
C21_ReadmeExamples ==
    /\ IsSome(matrixJson) => ExamplesPlaced(groups)
    /\ last.op = "modal" => ExamplesPlaced(last.parsed[1])

\* A document with the examples 4, 1 and 2, rendered by the view and the modal.
C21_Witness ==
    /\ doc = <<ReadmeExample4, ReadmeExample1, ReadmeExample2>>
    /\ IsSome(matrixJson) /\ last.op = "modal"
    /\ Len(groups["Neither Urgent nor Important"]) = 1
    /\ Len(last.parsed[1]["Neither Urgent nor Important"]) = 1

---------------------------------------------------------------------------
\* The task type (SpecParse).

\* C22: the parsed taskType is scheduled when the line has a scheduled date,
\* else repeated-daily when it has a habit marker, else regular.
C22_TaskTypePriority ==
    last.op = "parse" =>
        LET line == doc[last.line]
            taskType == last.parsed[1].taskType
        IN  /\ taskType \in {"scheduled", "repeated-daily", "regular"}
            /\ taskType = "scheduled" <=> Has(line, {"sched", "schedTight"})
            /\ taskType = "repeated-daily"
                  <=> (~Has(line, {"sched", "schedTight"})
                       /\ Has(line, {"habitDaily", "habitWeekly", "habitE"}))

\* A line with a habit marker and a scheduled date parses to scheduled.
C22_Witness ==
    /\ last.op = "parse"
    /\ Has(doc[last.line], {"habitDaily"}) /\ Has(doc[last.line], {"sched"})
    /\ last.parsed[1].taskType = "scheduled"

---------------------------------------------------------------------------
\* The two views polling a document over several days, with habits checked
\* off in between.

ScheduledHabitLine ==
    <<BoxOpen, Word(8), Tok("habitDaily", 0), Tok("sched", FirstDay + 1)>>

PollLines ==
    {HabitLine, ScheduledHabitLine}
    \cup {ScheduledLine(day) : day \in FirstDay..(FirstDay + 1)}

\* One line, or a habit followed by another line.
PollDocuments ==
    {<<l>> : l \in PollLines} \cup {<<HabitLine, l>> : l \in PollLines \ {HabitLine}}

InitPoll ==
    /\ doc \in PollDocuments
    /\ today = FirstDay
    /\ settings = [enableStreakTracking |-> TRUE, dailyNotePath |-> FALSE]
    /\ InitViews
    /\ hist = [clean |-> FALSE, days |-> <<>>, edits |-> 0, ops |-> 0]

NextPoll ==
    \/ AdvanceDay
    \/ MatrixRefresh
    \/ TrackerRefresh
    \/ \E i \in 1..MaxLines : TrackerCheckHabit(i)

SpecPoll == InitPoll /\ [][NextPoll]_vars

\* The stored fingerprint is the fingerprint of the stored task list.
FingerprintOfStored ==
    /\ IsSome(matrixJson) => matrixJson = Some(MatrixFingerprint(matrixTasks))
    /\ IsSome(polledOn) => habitJson = Some(TrackerFingerprint(habitTasks))

\* A poll of the matrix view stores and renders the new scan exactly when its
\* fingerprint is not the stored one.
MatrixGated ==
    LET new == MatrixScan(doc)
    IN  /\ Some(MatrixFingerprint(new)) # matrixJson
            => /\ matrixTasks' = new
               /\ groups' = groupTasks(new)
               /\ matrixJson' = Some(MatrixFingerprint(new))
        /\ Some(MatrixFingerprint(new)) = matrixJson
            => UNCHANGED <<matrixTasks, groups, matrixJson>>

TrackerGated ==
    LET new == TrackerScan(doc, today)
    IN  /\ Some(TrackerFingerprint(new)) # habitJson
            => /\ habitTasks' = new
               /\ checkboxOff' = RenderCheckboxes(new, today)
               /\ processedTasks' = sortHabitTasks(new, currentSortOrder,
                                                   currentSortDirection)
               /\ habitJson' = Some(TrackerFingerprint(new))
        /\ Some(TrackerFingerprint(new)) = habitJson
            => UNCHANGED <<habitTasks, checkboxOff, processedTasks, habitJson>>

\* C24: a completed reloadAndRender of either view replaces the stored task
\* list and renders it if and only if the fingerprint of the new scan differs
\* from the stored fingerprint, and after it the stored fingerprint is the
\* fingerprint of the stored task list.
C24_FingerprintGating ==
    /\ []FingerprintOfStored
    /\ [][(MatrixRefresh => MatrixGated) /\ (TrackerRefresh => TrackerGated)]_vars

\* Both views hold tasks, and the tracker's last poll, on a later day than the
\* scan it holds, found the fingerprint unchanged.
C24_Witness ==
    /\ matrixTasks # <<>>
    /\ habitTasks # <<>>
    /\ polledOn = Some(today)
    /\ scannedOn # polledOn

\* The last-done date of the line a rendered habit task was scanned from.
LastDoneInDoc(task) ==
    IF task.line \in DOMAIN doc
    THEN parseTask(doc[task.line], task.line)[1].lastDoneDate
    ELSE None

\* C29: once a poll of the habit tracker has completed on the current day, no
\* habit is shown as done (checkbox checked and disabled) whose last-done date
\* is not today.
C29_DayBoundary ==
    polledOn = Some(today)
        => \A i \in DOMAIN checkboxOff :
              checkboxOff[i] => LastDoneInDoc(habitTasks[i]) = Some(today)

\* C30: after a scan every task the habit tracker lists has one of the
\* categories daily, weekly and scheduled, and a task of category scheduled
\* has the day of the scan as its scheduled date.
C30_TrackerCategories ==
    IsSome(scannedOn)
        => \A i \in DOMAIN habitTasks :
              /\ habitTasks[i].type \in {"daily", "weekly", "scheduled"}
              /\ habitTasks[i].type = "scheduled"
                    => habitTasks[i].scheduledDate = scannedOn

---------------------------------------------------------------------------
\* Dragging a task of the matrix view to a quadrant (Spec).

\* C25: after moveTaskToQuadrant has written the line, parsing the line gives
\* the importance and the urgency of the quadrant the task was dropped on.
C25_DragReclassifies ==
    (last.op = "move" /\ last.wrote)
        => LET task == parseTask(doc[last.line], last.line)[1]
           IN  /\ task.importance = last.importance
               /\ task.urgency = last.urgency

---------------------------------------------------------------------------
\* Clicks on the + of two habits whose handlers overlap.

RaceLines ==
    {<<BoxOpen, Word(w), Tok("habitDaily", 0), Tok("acc", 0), Tok("success", 0)>> :
        w \in {1, 3}}

InitRace ==
    /\ doc \in {q \in SeqsUpTo(RaceLines, MaxLines) : q # <<>>}
    /\ today = FirstDay
    /\ settings = [enableStreakTracking |-> TRUE, dailyNotePath |-> FALSE]
    /\ InitViews
    /\ hist = [clean |-> FALSE, days |-> <<>>, edits |-> 0, ops |-> 0]

NextRace ==
    \/ TrackerReloadAndRender
    \/ \E i \in 1..MaxLines : TrackerIncrementRead(i)
    \/ \E k \in 1..MaxPending : TrackerIncrementWrite(k)

SpecRace == InitRace /\ [][NextRace]_vars

\* C26: when an increment has written, the counter of its line is one more than
\* it was in the document just before the write, and every other line is as it
\* was in the document just before the write, whatever other handler ran
\* between the increment's read and its write.
C26_NoLostUpdate ==
    (last.op = "increment" /\ last.wrote)
        => /\ Len(doc) = Len(last.pre)
           /\ \A n \in DOMAIN doc :
                 IF n = last.line
                 THEN parseTask(doc[n], n)[1].accumulatedCount
                        = Some(OrElse(parseTask(last.pre[n], n)[1].accumulatedCount, 0) + 1)
                 ELSE doc[n] = last.pre[n]

---------------------------------------------------------------------------
\* The life of a view: onOpen, the interval, overlapping scans, onClose.

\* reloadAndRender up to its await of vault.read: the scan holds what it read.
\* The reads of overlapping scans end in any order.
ScanStart(v, fromOnOpen) ==
    /\ scanSeq[v].started < MaxScans
    /\ scanSeq' = [scanSeq EXCEPT ![v].started = @ + 1]
    /\ pendingScans' = pendingScans \cup
           {[view |-> v, seq |-> scanSeq[v].started + 1, day |-> today,
             fromOnOpen |-> fromOnOpen,
             tasks |-> IF v = "matrix" THEN MatrixScan(doc)
                       ELSE TrackerScan(doc, today)]}

\* onOpen up to its await of the first reloadAndRender.
OnOpen(v) ==
    /\ ~timers[v].opening /\ timers[v].made = 0 /\ ~timers[v].closed
    /\ ScanStart(v, TRUE)
    /\ timers' = [timers EXCEPT ![v].opening = TRUE]
    /\ UNCHANGED <<doc, today, settings, matrixTasks, matrixJson, habitTasks,
                   habitJson, checkboxOff, rendering, polledOn, pendingWrites,
                   last, hist>>

\* The interval callback, while the interval is set.
IntervalTick(v) ==
    /\ timers[v].active # {}
    /\ ScanStart(v, FALSE)
    /\ UNCHANGED <<doc, today, settings, matrixTasks, matrixJson, habitTasks,
                   habitJson, checkboxOff, rendering, polledOn, pendingWrites,
                   timers, last, hist>>

\* The rest of reloadAndRender; after the scan of onOpen, onOpen goes on and
\* sets the interval.
FinishOf(s) ==
    /\ pendingScans' = pendingScans \ {s}
    /\ IF s.view = "matrix"
       THEN /\ MatrixStore(s.tasks)
            /\ scanSeq' = [scanSeq EXCEPT !["matrix"].stored =
                              IF Some(MatrixFingerprint(s.tasks)) # matrixJson
                              THEN s.seq ELSE @]
            /\ UNCHANGED <<habitTasks, habitJson, checkboxOff, processedTasks,
                           scannedOn, polledOn>>
       ELSE /\ TrackerStore(s.tasks, s.day)
            /\ scanSeq' = [scanSeq EXCEPT !["tracker"].stored =
                              IF Some(TrackerFingerprint(s.tasks)) # habitJson
                              THEN s.seq ELSE @]
            /\ UNCHANGED <<matrixTasks, matrixJson, groups>>
    /\ timers' = IF s.fromOnOpen
                 THEN [timers EXCEPT ![s.view] =
                          [@ EXCEPT !.handle = Some(timers[s.view].made + 1),
                                    !.active = @ \cup {timers[s.view].made + 1},
                                    !.made = @ + 1,
                                    !.opening = FALSE]]
                 ELSE timers
    /\ UNCHANGED <<doc, today, settings, currentSortOrder, currentSortDirection,
                   pendingWrites, last, hist>>

ScanFinish(v, n) ==
    \E s \in pendingScans : s.view = v /\ s.seq = n /\ FinishOf(s)

\* onClose of a view whose onOpen was called.
OnClose(v) ==
    /\ timers[v].opening \/ timers[v].made > 0
    /\ ~timers[v].closed
    /\ timers' = [timers EXCEPT ![v] =
                     [@ EXCEPT !.closed = TRUE,
                               !.handle = None,
                               !.active = IF IsSome(timers[v].handle)
                                          THEN @ \ {timers[v].handle[1]} ELSE @]]
    /\ UNCHANGED <<doc, today, settings, matrixTasks, matrixJson, habitTasks,
                   habitJson, checkboxOff, rendering, polledOn, pendingWrites,
                   pendingScans, scanSeq, last, hist>>

InitLife ==
    /\ doc \in {<<MatrixLine>>, <<HabitLine>>}
    /\ today = FirstDay
    /\ settings = [enableStreakTracking |-> TRUE, dailyNotePath |-> FALSE]
    /\ InitViews
    /\ hist = [clean |-> FALSE, days |-> <<>>, edits |-> 0, ops |-> 0]

NextLife ==
    \/ \E v \in Views : OnOpen(v) \/ IntervalTick(v) \/ OnClose(v)
    \/ \E v \in Views, n \in 1..MaxScans : ScanFinish(v, n)
    \/ EditInsertAbove
    \/ EditDeleteFirst

SpecLife == InitLife /\ [][NextLife]_vars

\* C27: the result a view stores is never replaced by the result of a scan
\* that started before the scan whose result is stored.
C27_ScanSupersession ==
    [][\A v \in Views : scanSeq'[v].stored >= scanSeq[v].stored]_vars

\* C28: a view has at most one interval set at any time, and none once its
\* onClose has run.
C28_TimerLifecycle ==
    \A v \in Views :
        /\ Cardinality(timers[v].active) <= 1
        /\ timers[v].closed => timers[v].active = {}

---------------------------------------------------------------------------
\* Migration of the legacy counter (SpecCounter).

\* The line's counter is written only as a trailing [N].
LegacyOnly(line) == ~Has(line, {"success"}) /\ IsSome(TrailingLegacy(line))

MigratedCount(op, n) ==
    CASE op = "increment" -> n + 1
      [] op = "decrement" -> Max(0, n - 1)
      [] OTHER -> 0

\* C23: a counter mutation of a line whose counter is only a trailing [N]
\* replaces the [N] in place by one [success::M], M = N + 1, max(0, N - 1) or 0;
\* the line then has no trailing [N] and exactly one success annotation.
C23_LegacyMigration ==
    (last.op \in {"increment", "decrement", "clear"} /\ last.wrote
     /\ LegacyOnly(last.pre[last.line]))
        => LET before == last.pre[last.line]
               after == doc[last.line]
           IN  /\ after = ReplaceAt(before, Len(before),
                              Tok("success",
                                  MigratedCount(last.op, before[Len(before)].v)))
               /\ ~Has(after, {"legacy"})
               /\ Cardinality(Indices(after, {"success"})) = 1

====
